---- MODULE Spec2Model ----
(***************************************************************************)
(* Model of ghmirror/core/mirror_requests.py: the conditional-request      *)
(* engine of the GitHub mirror.  Concurrent callers run                    *)
(* conditional_request; each call reads the process-wide health flag once, *)
(* then runs online_request (cache lookup, one or two transport calls,     *)
(* cache store) or offline_request (cache lookup or a synthesized 504).    *)
(*                                                                         *)
(* Response objects are Python objects: the cache and the callers hold     *)
(* references to them, and the handlers rewrite the X-Cache header of the  *)
(* object in place.  The model therefore keeps a heap of response objects  *)
(* (heap), and the cache maps a key to a reference.                        *)
(***************************************************************************)
EXTENDS Integers, Sequences, FiniteSets, TLC

VARIABLES
    online,   \* GithubStatus().online, owned by the external monitor
    cache,    \* RequestsCache: cache key -> reference of the stored response
    heap,     \* live response objects: reference -> response
    call,     \* per caller: the arguments, locals and outcome of its call
    host      \* the deployment: the threads serving calls and what they are asked

vars == <<online, cache, heap, call, host>>

-----------------------------------------------------------------------------
(* Values *)

None == "None"          \* Python's None for string-valued slots
NoRef == 0              \* Python's None for a response-valued slot

Procs == {"t1", "t2"}   \* threads of the host, each serving one call at a time

Methods == {"GET", "POST"}
URLs == {"/repos", "/user"}
Auths == {None, "token A"}
\* url_params: no per_page parameter, or per_page given as a string
PerPageParams == {None, "1"}

\* constants.PER_PAGE_ELEMENTS (imported at line 24), scaled down
PER_PAGE_ELEMENTS == 2

\* offline_request's defaults: error_code and error_message
error_code == 504
error_message == <<"{\"message\": \"gateway timeout\"}">>

XCacheValues ==
    {"ONLINE_MISS", "ONLINE_HIT", "RATE_LIMITED_MISS", "RATE_LIMITED_HIT",
     "OFFLINE_MISS", "OFFLINE_HIT"}

\* A JSON array body with n elements; a body is a sequence of tokens, and
\* len(resp.json()) is its length.
Page(n) == [i \in 1..n |-> "item"]

\* resp.request of a response that answers no request yet
NoRequest == <<None, None, None>>

\* A response object.  links is the parsed Link header (the set of rel
\* names), body the content, xcache the X-Cache header, request the method,
\* url and Authorization header of the request it answers (resp.request).
Response(status, etag, lastmod, links, body) ==
    [status |-> status, etag |-> etag, lastmod |-> lastmod, links |-> links,
     body |-> body, xcache |-> None, request |-> NoRequest]

\* What the upstream may answer to one transport call.  The 200 answers a
\* cache can hold: a full page without links under each choice of
\* validators, and with an ETag a full page with a next link, a full last
\* page (prev link only) and a short page; plus a 200 without validators.
Validators == {<<"etag1", None>>, <<None, "date1">>, <<"etag1", "date1">>}
Answers200 ==
    {Response(200, v[1], v[2], {}, Page(PER_PAGE_ELEMENTS)) : v \in Validators}
    \cup {Response(200, "etag1", None, ls, Page(PER_PAGE_ELEMENTS)) :
              ls \in {{"next"}, {"prev"}}}
    \cup {Response(200, "etag1", None, {}, Page(PER_PAGE_ELEMENTS - 1)),
          Response(200, None, None, {}, Page(PER_PAGE_ELEMENTS))}
Answers304 == {Response(304, None, None, {}, <<>>)}
Answers403 ==
    {Response(403, None, None, {}, b) :
        b \in {<<"Forbidden">>,
               <<"API rate limit exceeded", "for user">>,
               <<"You have triggered an", "abuse detection mechanism">>}}
Answers404 == {Response(404, None, None, {}, <<"Not Found">>)}
Answers == Answers200 \cup Answers304 \cup Answers403 \cup Answers404

\* The deployments explored.  One thread serving calls one after the other
\* under every upstream answer, without a credential and with one; two
\* threads serving calls concurrently on one cache key, the upstream
\* answering with a full page, a short page, a 304, a rate-limit 403 or a
\* 404; and one thread serving GETs and POSTs of three callers (two
\* credentials and none) on one url, or of one caller on two urls, the
\* upstream answering with a short page, a 304 or a rate-limit 403.
ConcurrentAnswers ==
    {Response(200, "etag1", None, {}, Page(PER_PAGE_ELEMENTS)),
     Response(200, "etag1", None, {}, Page(PER_PAGE_ELEMENTS - 1)),
     Response(403, None, None, {}, <<"API rate limit exceeded", "for user">>)}
        \cup Answers304 \cup Answers404
SharedAnswers ==
    {Response(200, "etag1", None, {}, Page(PER_PAGE_ELEMENTS - 1)),
     Response(403, None, None, {}, <<"API rate limit exceeded", "for user">>)}
        \cup Answers304

\* An upstream that honours conditional requests.  The collection behind
\* every url has PER_PAGE_ELEMENTS elements and does not change: asked for
\* n elements per page, its first page is the whole collection without
\* links when n = PER_PAGE_ELEMENTS, and n elements with a next link when
\* n is less.  HonestUpstreams names the validators it sends: an ETag of
\* the page, the Last-Modified date of the collection, or both.
HonestUpstreams == {"honest etag", "honest date", "honest both"}
ETagOf(n) == IF n = PER_PAGE_ELEMENTS THEN "etag1" ELSE "etag2"
Representation(upstream, n) ==
    Response(200,
             IF upstream = "honest date" THEN None ELSE ETagOf(n),
             IF upstream = "honest etag" THEN None ELSE "date1",
             IF n < PER_PAGE_ELEMENTS THEN {"next"} ELSE {},
             Page(IF n < PER_PAGE_ELEMENTS THEN n ELSE PER_PAGE_ELEMENTS))
Created == Response(201, None, None, {}, <<"item">>)
HonestAnswers(upstream) ==
    {Representation(upstream, n) : n \in 1..PER_PAGE_ELEMENTS}
        \cup Answers304 \cup {Created}

Hosts ==
    {[threads |-> {"t1"}, urls |-> {"/repos"}, auths |-> {None},
      per_pages |-> PerPageParams, upstream |-> "any"],
     [threads |-> {"t1"}, urls |-> {"/repos"}, auths |-> {"token A"},
      per_pages |-> PerPageParams, upstream |-> "any"],
     [threads |-> Procs, urls |-> {"/repos"}, auths |-> {"token A"},
      per_pages |-> {None}, upstream |-> "concurrent"],
     [threads |-> {"t1"}, urls |-> {"/repos"}, auths |-> {None, "token A", "token B"},
      per_pages |-> {None}, upstream |-> "shared"],
     [threads |-> {"t1"}, urls |-> URLs, auths |-> {"token A"},
      per_pages |-> {None}, upstream |-> "shared"]}
    \cup {[threads |-> {"t1"}, urls |-> {"/repos"}, auths |-> {"token A"},
           per_pages |-> PerPageParams, upstream |-> u] : u \in HonestUpstreams}

\* the answers the upstream of deployment h may give
AnswersOf(h) ==
    CASE h.upstream = "any" -> Answers
      [] h.upstream = "concurrent" -> ConcurrentAnswers
      [] h.upstream = "shared" -> SharedAnswers
      [] h.upstream \in HonestUpstreams -> HonestAnswers(h.upstream)

-----------------------------------------------------------------------------
(* Pure helpers of the module *)

\* int(per_page) on the strings a caller may pass
int(s) == CASE s = "1" -> 1 [] s = "2" -> 2 [] s = "3" -> 3

\* _get_elements_per_page(url_params): the per_page parameter or None (0)
_get_elements_per_page(per_page) ==
    IF per_page /= None THEN int(per_page) ELSE 0

\* lines 81-85: the effective page size
per_page_elements(per_page) ==
    IF _get_elements_per_page(per_page) = 0
        THEN PER_PAGE_ELEMENTS
        ELSE _get_elements_per_page(per_page)

\* hashlib.sha1(auth.encode()).hexdigest(): a digest per credential, taken
\* as collision free on the credentials of the model
sha1(auth) == CASE auth = "token A" -> "sha1:a" [] auth = "token B" -> "sha1:b"

auth_sha(auth) == IF auth = None THEN None ELSE sha1(auth)

\* mutant: the credential is left out of the key
cache_key_UrlOnly(url, auth) == <<url, None>>

cache_key(url, auth) == <<url, auth_sha(auth)>>

\* m in response.text, over the tokens of the body
TextContains(body, m) == \E i \in 1..Len(body) : body[i] = m

rate_limit_messages == {"API rate limit exceeded", "abuse detection mechanism"}

\* mutant: every 403 counts as rate limited
_should_serve_from_cache_Any403(response) == response.status = 403

_should_serve_from_cache(response) ==
    /\ response.status = 403
    /\ \E m \in rate_limit_messages : TextContains(response.body, m)

\* mutant: the check for a validator header is dropped
ShouldCache_AnyOk(resp) == resp.status = 200

\* the condition of _cache_response
ShouldCache(resp) ==
    /\ resp.status = 200
    /\ (resp.etag /= None \/ resp.lastmod /= None)

\* mutant: the special case for non-GET requests is lost
IsNonGet_Never(method) == FALSE

\* line 94 (and 190): the special case for non-GET requests
IsNonGet(method) == method /= "GET"

\* mutant: the page counts as full when it holds at most per_page elements
IsFullPageWithoutLinks_AtMost(cached, per_page) ==
    /\ Len(cached.body) <= per_page
    /\ cached.links = {}

\* lines 128-129: a full page that carries no links
IsFullPageWithoutLinks(cached, per_page) ==
    /\ Len(cached.body) = per_page
    /\ cached.links = {}

\* mutant: the value read from GithubStatus is ignored
Route_AlwaysOnline(flag) == "online"

\* mutant: the test of the value read from GithubStatus is inverted
Route_Inverted(flag) == IF flag THEN "offline" ELSE "online"

\* line 68-70: the handler chosen from the value read from GithubStatus
Route(flag) == IF flag THEN "online" ELSE "offline"

-----------------------------------------------------------------------------
(* Heap *)

Refs(h) == DOMAIN h

NewRef(h) == CHOOSE r \in 1..(Cardinality(DOMAIN h) + 1) :
                /\ r \notin DOMAIN h
                /\ \A q \in 1..(r - 1) : q \in DOMAIN h

Alloc(h, r, obj) == [x \in DOMAIN h \cup {r} |-> IF x = r THEN obj ELSE h[x]]

\* the references the program still holds
Reachable(ca, cl) ==
    {ca[k] : k \in DOMAIN ca}
        \cup {cl[p].cached : p \in Procs} \cup {cl[p].result : p \in Procs}

\* objects nobody refers to are gone
Collect(h, ca, cl) ==
    [r \in (DOMAIN h \cap Reachable(ca, cl)) |-> h[r]]

\* cache[cache_key] read: the collaborator hands out the response object
\* it holds under k, shared with every other holder, not a copy
Get(ca, k) == ca[k]

\* mutant: an existing entry is kept (setdefault)
Store_KeepFirst(ca, k, r) ==
    IF k \in DOMAIN ca THEN ca
    ELSE [x \in DOMAIN ca \cup {k} |-> IF x = k THEN r ELSE ca[x]]

Store(ca, k, r) == [x \in DOMAIN ca \cup {k} |-> IF x = k THEN r ELSE ca[x]]

-----------------------------------------------------------------------------
(* State *)

NoHeaders == [Authorization |-> None, IfNoneMatch |-> None, IfModifiedSince |-> None]

IdleCall ==
    [pc |-> "idle", method |-> "GET", url |-> "/repos", auth |-> None,
     per_page |-> None, health |-> FALSE, headers |-> NoHeaders,
     cached |-> NoRef, hadCached |-> FALSE, lookups |-> 0, stores |-> 0,
     ntransport |-> 0, first |-> 0, firstBody |-> <<>>, second |-> 0,
     ran |-> None,
     result |-> NoRef, raised |-> None]

Init ==
    /\ online \in BOOLEAN
    /\ cache = <<>>
    /\ heap = <<>>
    /\ call = [p \in Procs |-> IdleCall]
    /\ host \in Hosts

-----------------------------------------------------------------------------
(* The external monitor flips the health flag at any time. *)

monitor_flip ==
    /\ online' = ~online
    /\ UNCHANGED <<cache, heap, call, host>>

-----------------------------------------------------------------------------
(* conditional_request: entry of a call; reads the flag and picks the handler *)

conditional_request(p) ==
    /\ call[p].pc \in {"idle", "done"}
    /\ \E method \in Methods, url \in host.urls, auth \in host.auths,
          per_page \in host.per_pages :
          call' = [call EXCEPT ![p] =
                      [IdleCall EXCEPT !.pc = Route(online), !.method = method,
                                       !.url = url, !.auth = auth,
                                       !.per_page = per_page, !.health = online]]
    /\ heap' = Collect(heap, cache, call')
    /\ UNCHANGED <<online, cache, host>>

-----------------------------------------------------------------------------
(* online_request *)

\* mutant: Last-Modified is consulted only when there is no ETag (elif)
FirstHeaders_Elif(auth, hit, cached) ==
    [Authorization |-> auth,
     IfNoneMatch |-> IF hit THEN cached.etag ELSE None,
     IfModifiedSince |-> IF hit /\ cached.etag = None THEN cached.lastmod ELSE None]

\* lines 87-91 and 111-119: the headers of the first request
FirstHeaders(auth, hit, cached) ==
    [Authorization |-> auth,
     IfNoneMatch |-> IF hit THEN cached.etag ELSE None,
     IfModifiedSince |-> IF hit THEN cached.lastmod ELSE None]

\* lines 77-101 (non-GET) and 77-125 (GET): up to the first transport call
online_request_send(p) ==
    /\ call[p].pc = "online"
    /\ LET c == call[p]
           key == cache_key(c.url, c.auth)
           get == ~IsNonGet(c.method)
           hit == get /\ key \in DOMAIN cache
           cached == IF hit THEN Get(cache, key) ELSE NoRef
       IN  call' = [call EXCEPT ![p] =
                      [c EXCEPT !.pc = IF get THEN "wait1" ELSE "forward",
                                !.headers = FirstHeaders(c.auth, hit,
                                              IF hit THEN heap[cached] ELSE IdleCall),
                                !.cached = cached,
                                !.hadCached = hit,
                                !.lookups = IF get THEN 1 ELSE 0,
                                !.ntransport = 1,
                                !.ran = "online_request"]]
    /\ UNCHANGED <<online, cache, heap, host>>

\* mutant: the failing call drops the entry of its key from the cache
transport_failure_Evicts(p) ==
    /\ call[p].pc \in {"forward", "wait1", "wait2"}
    /\ call' = [call EXCEPT ![p].pc = "done", ![p].cached = NoRef,
                            ![p].raised = "RequestException"]
    /\ cache' = [k \in DOMAIN cache \ {cache_key(call[p].url, call[p].auth)} |->
                    cache[k]]
    /\ heap' = Collect(heap, cache', call')
    /\ UNCHANGED <<online, host>>

\* requests.request raises (connection error, timeout): nothing catches it
transport_failure(p) ==
    /\ call[p].pc \in {"forward", "wait1", "wait2"}
    /\ call' = [call EXCEPT ![p].pc = "done", ![p].cached = NoRef,
                            ![p].raised = "RequestException"]
    /\ heap' = Collect(heap, cache, call')
    /\ UNCHANGED <<online, cache, host>>

\* the answer of an upstream that honours conditional requests to the
\* request of call c under headers hs: a 304 when If-None-Match is the
\* ETag of the current representation of the url under the page size
\* asked, or, no If-None-Match being sent, when If-Modified-Since is its
\* Last-Modified; otherwise that representation
HonestAnswer(upstream, c) ==
    LET current == Representation(upstream, per_page_elements(c.per_page))
        matches ==
            IF c.headers.IfNoneMatch /= None
            THEN c.headers.IfNoneMatch = current.etag
            ELSE /\ c.headers.IfModifiedSince /= None
                 /\ c.headers.IfModifiedSince = current.lastmod
    IN  IF c.method /= "GET" THEN Created
        ELSE IF matches THEN Response(304, None, None, {}, <<>>)
        ELSE current

\* requests.request(...): the answers the upstream may give to the request
\* thread p's call has sent
UpstreamAnswers(p) ==
    IF host.upstream \in HonestUpstreams
    THEN {HonestAnswer(host.upstream, call[p])}
    ELSE AnswersOf(host)

\* the response object requests.request returns to call c for answer ans,
\* with the X-Cache header the handler then sets on it
Received(ans, c, tag) ==
    [ans EXCEPT !.xcache = tag, !.request = <<c.method, c.url, c.auth>>]

\* lines 103-107: the answer to a non-GET request is forwarded
online_request_forward(p) ==
    /\ call[p].pc = "forward"
    /\ \E ans \in UpstreamAnswers(p) :
          LET r == NewRef(heap)
              h1 == Alloc(heap, r, Received(ans, call[p], "ONLINE_MISS"))
          IN  /\ call' = [call EXCEPT ![p].pc = "done", ![p].first = ans.status,
                                      ![p].result = r]
              /\ heap' = Collect(h1, cache, call')
    /\ UNCHANGED <<online, cache, host>>

\* _cache_response(resp, cache, cache_key), resp being the object at r
_cache_response(ca, h, r, key) ==
    IF ShouldCache(h[r]) THEN Store(ca, key, r) ELSE ca

\* lines 127-160: the answer to the first request of a GET
online_request_answer(p) ==
    /\ call[p].pc = "wait1"
    /\ \E ans \in UpstreamAnswers(p) :
          LET c == call[p]
              key == cache_key(c.url, c.auth)
              r == NewRef(heap)
              done == [c EXCEPT !.pc = "done", !.first = ans.status,
                                  !.firstBody = ans.body, !.cached = NoRef]
          IN  IF ans.status = 304
              THEN IF c.cached = NoRef
                   THEN \* line 128: cached_response is None
                        /\ call' = [call EXCEPT ![p] =
                                      [done EXCEPT !.raised = "AttributeError"]]
                        /\ cache' = cache
                        /\ heap' = Collect(heap, cache', call')
                   ELSE IF IsFullPageWithoutLinks(heap[c.cached],
                                                  per_page_elements(c.per_page))
                   THEN IF c.headers.IfNoneMatch = None
                        THEN \* line 131: headers.pop of a missing key
                             /\ call' = [call EXCEPT ![p] =
                                           [done EXCEPT !.raised = "KeyError"]]
                             /\ cache' = cache
                             /\ heap' = Collect(heap, cache', call')
                        ELSE \* lines 131-136: the request is issued again
                             /\ call' = [call EXCEPT ![p] =
                                           [c EXCEPT !.pc = "wait2",
                                                     !.first = ans.status,
                                  !.firstBody = ans.body,
                                                     !.headers.IfNoneMatch = None,
                                                     !.ntransport = 2]]
                             /\ cache' = cache
                             /\ heap' = heap
                   ELSE \* lines 143-145
                        /\ call' = [call EXCEPT ![p] =
                                      [done EXCEPT !.result = c.cached]]
                        /\ cache' = cache
                        /\ heap' = Collect([heap EXCEPT ![c.cached].xcache = "ONLINE_HIT"],
                                           cache', call')
              ELSE IF _should_serve_from_cache(ans)
              THEN IF c.cached = NoRef
                   THEN \* lines 149-152
                        /\ call' = [call EXCEPT ![p] = [done EXCEPT !.result = r]]
                        /\ cache' = cache
                        /\ heap' = Collect(
                              Alloc(heap, r, Received(ans, c, "RATE_LIMITED_MISS")),
                              cache', call')
                   ELSE \* lines 153-155
                        /\ call' = [call EXCEPT ![p] =
                                      [done EXCEPT !.result = c.cached]]
                        /\ cache' = cache
                        /\ heap' = Collect(
                              [heap EXCEPT ![c.cached].xcache = "RATE_LIMITED_HIT"],
                              cache', call')
              ELSE \* lines 157-160
                   LET h1 == Alloc(heap, r, Received(ans, c, "ONLINE_MISS"))
                   IN  /\ cache' = _cache_response(cache, h1, r, key)
                       /\ call' = [call EXCEPT ![p] =
                                     [done EXCEPT !.result = r,
                                         !.stores = IF cache' /= cache THEN 1 ELSE 0]]
                       /\ heap' = Collect(h1, cache', call')
    /\ UNCHANGED <<online, host>>

\* mutant: a 304 to the request issued again makes the handler issue it
\* once more (a while loop instead of the if at line 127)
online_request_refetched_Loops(p) ==
    /\ call[p].pc = "wait2"
    /\ \E ans \in UpstreamAnswers(p) :
          LET c == call[p]
              key == cache_key(c.url, c.auth)
              r == NewRef(heap)
              h1 == Alloc(heap, r, Received(ans, c, "ONLINE_MISS"))
          IN  IF ans.status = 304 /\ c.ntransport < 3
              THEN /\ call' = [call EXCEPT ![p].ntransport = c.ntransport + 1]
                   /\ UNCHANGED <<cache, heap>>
              ELSE /\ cache' = _cache_response(cache, h1, r, key)
                   /\ call' = [call EXCEPT ![p] =
                                 [c EXCEPT !.pc = "done", !.cached = NoRef, !.result = r,
                                           !.second = ans.status,
                                           !.stores = IF cache' /= cache THEN 1 ELSE 0]]
                   /\ heap' = Collect(h1, cache', call')
    /\ UNCHANGED <<online, host>>

\* lines 138-141: the answer to the request issued again after a 304
online_request_refetched(p) ==
    /\ call[p].pc = "wait2"
    /\ \E ans \in UpstreamAnswers(p) :
          LET c == call[p]
              key == cache_key(c.url, c.auth)
              r == NewRef(heap)
              h1 == Alloc(heap, r, Received(ans, c, "ONLINE_MISS"))
          IN  /\ cache' = _cache_response(cache, h1, r, key)
              /\ call' = [call EXCEPT ![p] =
                            [c EXCEPT !.pc = "done", !.cached = NoRef, !.result = r,
                                      !.second = ans.status,
                                      !.stores = IF cache' /= cache THEN 1 ELSE 0]]
              /\ heap' = Collect(h1, cache', call')
    /\ UNCHANGED <<online, host>>

-----------------------------------------------------------------------------
(* offline_request *)

\* lines 195-200 and 216-221: the synthesized response
OfflineMiss ==
    [Response(error_code, None, None, {}, error_message) EXCEPT !.xcache = "OFFLINE_MISS"]

\* mutant: the offline handler never finds the key
OfflineHit_Never(method, key, ca) == FALSE

\* lines 190 and 204: a GET whose key the cache holds is served from it
OfflineHit(method, key, ca) == ~IsNonGet(method) /\ key \in DOMAIN ca

offline_request(p) ==
    /\ call[p].pc = "offline"
    /\ LET c == call[p]
           key == cache_key(c.url, c.auth)
           hit == OfflineHit(c.method, key, cache)
           r == NewRef(heap)
           ran == [c EXCEPT !.pc = "done", !.ran = "offline_request",
                            !.headers.Authorization = c.auth,
                            !.lookups = IF IsNonGet(c.method) THEN 0 ELSE 1]
       IN  IF hit
           THEN \* lines 204-211
                /\ call' = [call EXCEPT ![p] =
                              [ran EXCEPT !.hadCached = TRUE, !.result = Get(cache, key)]]
                /\ heap' = Collect([heap EXCEPT ![Get(cache, key)].xcache = "OFFLINE_HIT"],
                                   cache, call')
           ELSE \* lines 190-200 and 213-221
                /\ call' = [call EXCEPT ![p] = [ran EXCEPT !.result = r]]
                /\ heap' = Collect(Alloc(heap, r, OfflineMiss), cache, call')
    /\ UNCHANGED <<online, cache, host>>

-----------------------------------------------------------------------------

Next ==
    \/ monitor_flip
    \/ \E p \in host.threads : conditional_request(p)
    \/ \E p \in host.threads : online_request_send(p)
    \/ \E p \in host.threads : transport_failure(p)
    \/ \E p \in host.threads : online_request_forward(p)
    \/ \E p \in host.threads : online_request_answer(p)
    \/ \E p \in host.threads : online_request_refetched(p)
    \/ \E p \in host.threads : offline_request(p)

Spec == Init /\ [][Next]_vars

-----------------------------------------------------------------------------
(* Properties *)

Range(f) == {f[x] : x \in DOMAIN f}

\* thread p takes a step of its call
Steps(p) == call'[p] /= call[p]

\* thread p's call ends in this step by returning a response
Returns(p) ==
    /\ call[p].pc /= "done"
    /\ call'[p].pc = "done"
    /\ call'[p].raised = None

\* this step performs no cache set: every key maps to the entry it mapped to
CacheNotWritten == cache' = cache

\* this step leaves every stored entry as it was, headers included
CacheContentUnchanged ==
    /\ cache' = cache
    /\ \A k \in DOMAIN cache : heap'[cache[k]] = heap[cache[k]]

\* this step leaves the keys and the bodies stored under them as they were
CacheKeysAndBodiesUnchanged ==
    /\ DOMAIN cache' = DOMAIN cache
    /\ \A k \in DOMAIN cache : heap'[cache'[k]].body = heap[cache[k]].body

\* C1: every entry the cache holds is a response of status 200 that
\* carries an ETag or a Last-Modified header.
C1_OnlyValidated200Stored ==
    \A k \in DOMAIN cache :
        /\ cache[k] \in DOMAIN heap
        /\ heap[cache[k]].status = 200
        /\ (heap[cache[k]].etag /= None \/ heap[cache[k]].lastmod /= None)

\* a call returned a 200 without validators, which is not in the cache,
\* while the cache holds an entry
C1_Witness ==
    /\ DOMAIN cache /= {}
    /\ \E p \in Procs :
          /\ call[p].pc = "done"
          /\ call[p].ran = "online_request"
          /\ call[p].method = "GET"
          /\ call[p].result /= NoRef
          /\ heap[call[p].result].status = 200
          /\ heap[call[p].result].etag = None
          /\ heap[call[p].result].lastmod = None
          /\ call[p].result \notin Range(cache)

\* C2: a call that read the health flag as offline makes no transport call,
\* whatever its method and the cache state, never raises, and returns a
\* response.
C2_OfflineNeverTransports ==
    \A p \in Procs :
        (call[p].pc /= "idle" /\ ~call[p].health) =>
            /\ call[p].ntransport = 0
            /\ call[p].raised = None
            /\ call[p].pc \in {"offline", "done"}
            /\ call[p].pc = "offline" => ENABLED offline_request(p)
            /\ call[p].pc = "done" =>
                  /\ call[p].result \in DOMAIN heap
                  /\ call[p].result /= NoRef

\* an offline POST returned while the cache holds its key
C2_Witness ==
    \E p \in Procs :
        /\ call[p].pc = "done"
        /\ ~call[p].health
        /\ call[p].method = "POST"
        /\ cache_key(call[p].url, call[p].auth) \in DOMAIN cache
        /\ call[p].result /= NoRef

\* C3: an online non-GET call forwards the upstream answer with X-Cache =
\* ONLINE_MISS after exactly one transport call, never looks the cache up
\* and leaves the cache content as it was.
C3_OnlineNonGetForwards ==
    [][\A p \in Procs :
          (call[p].method /= "GET" /\ call[p].health /\ call[p].pc /= "done"
              /\ call[p].pc /= "idle" /\ Steps(p)) =>
            /\ CacheContentUnchanged
            /\ call'[p].lookups = 0
            /\ call'[p].stores = 0
            /\ call'[p].hadCached = FALSE
            /\ call'[p].ntransport = 1
            /\ Returns(p) =>
                  /\ call'[p].result \notin DOMAIN heap
                  /\ \E ans \in AnswersOf(host) :
                        heap'[call'[p].result] =
                            [ans EXCEPT !.xcache = "ONLINE_MISS",
                                        !.request = <<call[p].method, call[p].url,
                                                      call[p].auth>>]
      ]_vars

\* an online POST got a 200 with an ETag, which was not stored
C3_Witness ==
    \E p \in Procs :
        /\ call[p].pc = "done"
        /\ call[p].health
        /\ call[p].method = "POST"
        /\ call[p].result /= NoRef
        /\ heap[call[p].result].status = 200
        /\ heap[call[p].result].etag /= None
        /\ heap[call[p].result].xcache = "ONLINE_MISS"
        /\ call[p].result \notin Range(cache)

\* C4: an offline non-GET call returns status 504 with the gateway-timeout
\* body and X-Cache = OFFLINE_MISS in any cache state, and leaves the cache
\* content as it was.
C4_OfflineNonGet504 ==
    [][\A p \in Procs :
          (call[p].method /= "GET" /\ call[p].pc = "offline" /\ Steps(p)) =>
            /\ Returns(p)
            /\ CacheContentUnchanged
            /\ call'[p].result \notin Range(cache)
            /\ heap'[call'[p].result].status = 504
            /\ heap'[call'[p].result].body = <<"{\"message\": \"gateway timeout\"}">>
            /\ heap'[call'[p].result].xcache = "OFFLINE_MISS"
      ]_vars

\* an offline POST got the 504 while the cache holds an entry for its key
C4_Witness ==
    \E p \in Procs :
        /\ call[p].pc = "done"
        /\ call[p].ran = "offline_request"
        /\ call[p].method = "POST"
        /\ cache_key(call[p].url, call[p].auth) \in DOMAIN cache
        /\ call[p].result /= NoRef
        /\ heap[call[p].result].status = 504
        /\ heap[call[p].result].xcache = "OFFLINE_MISS"

\* C5: an offline GET returns the entry stored under its key, unchanged but
\* for X-Cache = OFFLINE_HIT, when there is one, and otherwise status 504
\* with the gateway-timeout body and X-Cache = OFFLINE_MISS; either way the
\* keys of the cache and the bodies stored under them stay as they were.
C5_OfflineGet ==
    [][\A p \in Procs :
          (call[p].method = "GET" /\ call[p].pc = "offline" /\ Steps(p)) =>
            LET key == <<call[p].url,
                         IF call[p].auth = None THEN None ELSE sha1(call[p].auth)>>
            IN  /\ Returns(p)
                /\ CacheKeysAndBodiesUnchanged
                /\ CacheNotWritten
                /\ IF key \in DOMAIN cache
                   THEN /\ call'[p].result = cache[key]
                        /\ heap'[call'[p].result] =
                              [heap[cache[key]] EXCEPT !.xcache = "OFFLINE_HIT"]
                   ELSE /\ call'[p].result \notin DOMAIN heap
                        /\ heap'[call'[p].result].status = 504
                        /\ heap'[call'[p].result].body =
                              <<"{\"message\": \"gateway timeout\"}">>
                        /\ heap'[call'[p].result].xcache = "OFFLINE_MISS"
      ]_vars

\* an offline GET was served the stored entry
C5_Witness ==
    \E p \in Procs :
        /\ call[p].pc = "done"
        /\ call[p].ran = "offline_request"
        /\ call[p].method = "GET"
        /\ call[p].hadCached
        /\ call[p].result \in Range(cache)
        /\ heap[call[p].result].status = 200
        /\ heap[call[p].result].xcache = "OFFLINE_HIT"

\* an offline GET found no entry and got the 504
C5_WitnessMiss ==
    \E p \in Procs :
        /\ call[p].pc = "done"
        /\ call[p].ran = "offline_request"
        /\ call[p].method = "GET"
        /\ ~call[p].hadCached
        /\ heap[call[p].result].status = 504

\* the effective page size of thread p's call: the per_page parameter when
\* given, else the default
PageSizeOf(p) ==
    IF call[p].per_page = None THEN PER_PAGE_ELEMENTS ELSE int(call[p].per_page)

\* the entry thread p read from the cache is a full page without a next link
CachedFullWithoutNext(p) ==
    /\ Len(heap[call[p].cached].body) = PageSizeOf(p)
    /\ "next" \notin heap[call[p].cached].links

\* in this step thread p's online GET receives the answer to its first
\* request, of the given status
FirstAnswer(p, status) ==
    /\ call[p].pc = "wait1"
    /\ Steps(p)
    /\ call'[p].first = status

HasRateLimitPhrase(body) ==
    \E i \in 1..Len(body) :
        body[i] \in {"API rate limit exceeded", "abuse detection mechanism"}

\* C6: an online GET that read an entry from the cache and is answered 304
\* returns that entry with X-Cache = ONLINE_HIT and the stored body, after
\* one transport call and without a cache set, unless the entry is a full
\* page (element count = effective page size) without a next link.
C6_NotModifiedServesCached ==
    [][\A p \in Procs :
          (FirstAnswer(p, 304) /\ call[p].cached /= NoRef
              /\ ~CachedFullWithoutNext(p)) =>
            /\ Returns(p)
            /\ call'[p].result = call[p].cached
            /\ heap'[call'[p].result] =
                  [heap[call[p].cached] EXCEPT !.xcache = "ONLINE_HIT"]
            /\ heap'[call'[p].result].body = heap[call[p].cached].body
            /\ call'[p].ntransport = 1
            /\ call'[p].stores = 0
            /\ CacheNotWritten
      ]_vars

\* a 304 on a stored short page was served as ONLINE_HIT
C6_Witness ==
    \E p \in Procs :
        /\ call[p].pc = "done"
        /\ call[p].first = 304
        /\ call[p].hadCached
        /\ call[p].ntransport = 1
        /\ call[p].result /= NoRef
        /\ heap[call[p].result].xcache = "ONLINE_HIT"
        /\ Len(heap[call[p].result].body) < PageSizeOf(p)

\* C7: an online GET that read a full page without a next link from the
\* cache (stored with an ETag, a Last-Modified or both) and is answered 304
\* issues the request again with neither If-None-Match nor
\* If-Modified-Since, and returns the second answer with X-Cache =
\* ONLINE_MISS, stored under the key when it is a 200 with a validator.
C7_FullPageRefetchedUnconditionally ==
    [][\A p \in Procs :
          /\ (FirstAnswer(p, 304) /\ call[p].cached /= NoRef
                /\ CachedFullWithoutNext(p)) =>
                /\ call'[p].pc = "wait2"
                /\ call'[p].ntransport = 2
                /\ call'[p].headers.IfNoneMatch = None
                /\ call'[p].headers.IfModifiedSince = None
          /\ (call[p].pc = "wait2" /\ Steps(p) /\ call'[p].raised = None) =>
                /\ Returns(p)
                /\ call'[p].result /= call[p].cached
                /\ call'[p].result \notin DOMAIN heap
                /\ \E ans \in AnswersOf(host) :
                      /\ heap'[call'[p].result] =
                            [ans EXCEPT !.xcache = "ONLINE_MISS",
                                        !.request = <<call[p].method, call[p].url,
                                                      call[p].auth>>]
                      /\ (ans.status = 200 /\ (ans.etag /= None \/ ans.lastmod /= None)) =>
                            cache'[<<call[p].url, auth_sha(call[p].auth)>>] = call'[p].result
      ]_vars

\* C8: an online GET whose request is answered by a 403 with a rate-limit
\* phrase returns the entry it read from the cache with X-Cache =
\* RATE_LIMITED_HIT, or without one the 403 itself with X-Cache =
\* RATE_LIMITED_MISS; a 403 without a phrase is returned with X-Cache =
\* ONLINE_MISS; none of them is stored.
C8_RateLimited ==
    [][\A p \in Procs :
          FirstAnswer(p, 403) =>
            /\ Returns(p)
            /\ CacheNotWritten
            /\ call'[p].stores = 0
            /\ call'[p].ntransport = 1
            /\ IF HasRateLimitPhrase(call'[p].firstBody) /\ call[p].cached /= NoRef
               THEN /\ call'[p].result = call[p].cached
                    /\ heap'[call'[p].result].body = heap[call[p].cached].body
                    /\ heap'[call'[p].result].xcache = "RATE_LIMITED_HIT"
               ELSE /\ call'[p].result \notin DOMAIN heap
                    /\ heap'[call'[p].result].status = 403
                    /\ heap'[call'[p].result].body = call'[p].firstBody
                    /\ heap'[call'[p].result].xcache =
                          IF HasRateLimitPhrase(call'[p].firstBody)
                              THEN "RATE_LIMITED_MISS" ELSE "ONLINE_MISS"
      ]_vars

\* a rate-limit 403 was answered from the cache
C8_Witness ==
    \E p \in Procs :
        /\ call[p].pc = "done"
        /\ call[p].first = 403
        /\ HasRateLimitPhrase(call[p].firstBody)
        /\ call[p].hadCached
        /\ call[p].result /= NoRef
        /\ heap[call[p].result].status = 200
        /\ heap[call[p].result].xcache = "RATE_LIMITED_HIT"

\* a rate-limit 403 was forwarded for want of a cache entry
C8_WitnessMiss ==
    \E p \in Procs :
        /\ call[p].pc = "done"
        /\ call[p].first = 403
        /\ ~call[p].hadCached
        /\ call[p].result /= NoRef
        /\ heap[call[p].result].xcache = "RATE_LIMITED_MISS"

\* C9: a call none of whose transport calls failed returns a response, and
\* the response carries X-Cache set to one of the six values.
C9_AlwaysAResponseWithXCache ==
    \A p \in Procs :
        (call[p].pc = "done" /\ call[p].raised /= "RequestException") =>
            /\ call[p].raised = None
            /\ call[p].result \in DOMAIN heap
            /\ heap[call[p].result].xcache \in XCacheValues

\* C10: the handler a call runs is the one chosen by its single read of the
\* health flag, also after the monitor has flipped the flag, and no step
\* of a call changes the flag.
C10_HandlerFixedByOneRead ==
    /\ [](\A p \in Procs :
            /\ call[p].pc \in {"online", "forward", "wait1", "wait2"} => call[p].health
            /\ call[p].pc = "offline" => ~call[p].health
            /\ call[p].ran = "online_request" => call[p].health
            /\ call[p].ran = "offline_request" =>
                  (~call[p].health /\ call[p].ntransport = 0))
    /\ [][(\E p \in Procs : Steps(p)) => online' = online]_vars

\* an online call went through both transport calls and returned although
\* the monitor had flipped the flag to offline meanwhile
C10_Witness ==
    \E p \in Procs :
        /\ call[p].pc = "done"
        /\ call[p].ran = "online_request"
        /\ call[p].health
        /\ call[p].ntransport = 2
        /\ ~online

\* C11: when a transport call of an online call fails, on the first request
\* or on the request issued again after a 304, the call ends by raising,
\* makes no further transport call, and no step of it up to and including
\* the failure has changed the cache or a stored entry.
C11_TransportFailurePropagates ==
    [][\A p \in Procs :
          /\ (Steps(p) /\ call'[p].pc \in {"online", "forward", "wait1", "wait2"}) =>
                CacheContentUnchanged
          /\ (Steps(p) /\ call[p].pc \in {"forward", "wait1", "wait2"}
                /\ call'[p].first = call[p].first
                /\ call'[p].second = call[p].second
                /\ call'[p].result = NoRef) =>
                \* no answer was received in this step: the transport failed
                /\ call'[p].pc = "done"
                /\ call'[p].raised = "RequestException"
                /\ call'[p].ntransport = call[p].ntransport
                /\ call'[p].stores = 0
                /\ CacheContentUnchanged
          /\ (call[p].pc = "done" /\ call[p].raised /= None /\ Steps(p)) =>
                \* the call is over: the thread's next step is a new call
                call'[p].ntransport = 0
      ]_vars

\* the request issued again after a 304 failed while the cache holds the key
C11_Witness ==
    \E p \in Procs :
        /\ call[p].pc = "done"
        /\ call[p].raised = "RequestException"
        /\ call[p].first = 304
        /\ call[p].ntransport = 2
        /\ call[p].result = NoRef
        /\ cache_key(call[p].url, call[p].auth) \in DOMAIN cache

\* C12: a response served from the cache (an object that existed before
\* the step that returns it) to a call for url u with credential c answers
\* a GET for u sent with credential c: never one fetched with another
\* credential, without credential, or for another url.
C12_ServedEntryIsOwn ==
    [][\A p \in Procs :
          (Returns(p) /\ call'[p].result \in DOMAIN heap) =>
            /\ heap'[call'[p].result].xcache \in
                  {"ONLINE_HIT", "RATE_LIMITED_HIT", "OFFLINE_HIT"}
            /\ heap[call'[p].result].request = <<"GET", call[p].url, call[p].auth>>
            /\ heap'[call'[p].result].request = <<"GET", call[p].url, call[p].auth>>
      ]_vars

\* the cache holds entries fetched with two credentials and without one,
\* and a call with the second credential was served its own
C12_Witness ==
    /\ Cardinality(DOMAIN cache) = 3
    /\ \E p \in Procs :
          /\ call[p].pc = "done"
          /\ call[p].auth = "token B"
          /\ call[p].hadCached
          /\ call[p].result \in Range(cache)
          /\ heap[call[p].result].xcache \in
                {"ONLINE_HIT", "RATE_LIMITED_HIT", "OFFLINE_HIT"}
          /\ heap[call[p].result].request = <<"GET", call[p].url, "token B">>

\* the cache holds entries for two urls and a call was served its own
C12_WitnessUrls ==
    /\ Cardinality({k[1] : k \in DOMAIN cache}) = 2
    /\ \E p \in Procs :
          /\ call[p].pc = "done"
          /\ call[p].url = "/user"
          /\ call[p].hadCached
          /\ call[p].result \in Range(cache)
          /\ heap[call[p].result].request = <<"GET", "/user", call[p].auth>>

\* what thread p's call asks: resp.request of the responses it receives
RequestOf(p) == <<call[p].method, call[p].url, call[p].auth>>

\* the key of thread p's call
KeyOf(p) == <<call[p].url, IF call[p].auth = None THEN None ELSE sha1(call[p].auth)>>

\* C13: an online GET answered by neither a 304 nor a rate-limit 403
\* returns the answer with X-Cache = ONLINE_MISS; when the answer is a 200
\* with ETag or Last-Modified, the entry of the key after the step is that
\* very response, whatever was stored before and whoever stored it (the
\* last writer wins); otherwise the cache is not written.  The answer to
\* the request issued again after a 304 is returned and stored alike.
C13_MissForwardedAndStored ==
    [][\A p \in Procs :
          ((call[p].pc = "wait1" /\ Steps(p)
                /\ call'[p].first \notin {0, 304}
                /\ ~(call'[p].first = 403 /\ HasRateLimitPhrase(call'[p].firstBody)))
           \/ (call[p].pc = "wait2" /\ Steps(p) /\ call'[p].second /= 0)) =>
            /\ Returns(p)
            /\ call'[p].result \notin DOMAIN heap
            /\ \E ans \in AnswersOf(host) :
                  /\ heap'[call'[p].result] =
                        [ans EXCEPT !.xcache = "ONLINE_MISS", !.request = RequestOf(p)]
                  /\ ans.status = IF call[p].pc = "wait1" THEN call'[p].first
                                                        ELSE call'[p].second
                  /\ IF ans.status = 200 /\ (ans.etag /= None \/ ans.lastmod /= None)
                     THEN /\ DOMAIN cache' = DOMAIN cache \cup {KeyOf(p)}
                          /\ cache'[KeyOf(p)] = call'[p].result
                          /\ call'[p].stores = 1
                          /\ \A k \in DOMAIN cache \ {KeyOf(p)} :
                                cache'[k] = cache[k] /\ heap'[cache[k]] = heap[cache[k]]
                     ELSE /\ CacheContentUnchanged
                          /\ call'[p].stores = 0
      ]_vars

\* two concurrent GETs on one key both stored their answer: the entry is
\* the full page of one, and the short page the other stored is gone
C13_Witness ==
    \E p, q \in Procs :
        /\ p /= q
        /\ call[p].pc = "done" /\ call[q].pc = "done"
        /\ call[p].stores = 1 /\ call[q].stores = 1
        /\ KeyOf(p) = KeyOf(q)
        /\ cache[KeyOf(p)] = call[p].result
        /\ call[q].result /= call[p].result
        /\ call[q].result \notin Range(cache)
        /\ Len(heap[call[p].result].body) = PER_PAGE_ELEMENTS
        /\ Len(heap[call[q].result].body) = PER_PAGE_ELEMENTS - 1

\* C14: a stored entry is an immutable snapshot: a step that does not set
\* the entry of a key leaves the response held under that key as it was,
\* status, headers (X-Cache included) and body.
C14_StoredEntryImmutable ==
    [][\A k \in DOMAIN cache :
          (k \in DOMAIN cache' /\ cache'[k] = cache[k]) =>
              heap'[cache[k]] = heap[cache[k]]
      ]_vars

\* thread p is inside a call: dispatched and not yet returned
InCall(p) == call[p].pc \in {"online", "offline", "forward", "wait1", "wait2"}

\* a step of an online GET of thread p reads the cache only when it sends
\* its first request and at most once, and sets it only when it returns,
\* at most once
ReadOnceWriteOnce(p) ==
    /\ call'[p].lookups <= 1
    /\ call'[p].stores <= 1
    /\ call'[p].lookups /= call[p].lookups => call[p].ntransport = 0
    /\ call'[p].stores /= call[p].stores =>
          /\ call'[p].pc = "done"
          /\ call'[p].ntransport = call[p].ntransport
    /\ cache' /= cache => call'[p].stores = call[p].stores + 1

\* this step changes what the cache holds by at most one set of thread p's
\* key to the response p returns
OnlyWholeEntryWrite(p) ==
    \/ CacheContentUnchanged
    \/ /\ call'[p].stores = call[p].stores + 1
       /\ DOMAIN cache' = DOMAIN cache \cup {KeyOf(p)}
       /\ cache'[KeyOf(p)] = call'[p].result
       /\ call'[p].result \notin DOMAIN heap
       /\ \A k \in DOMAIN cache \ {KeyOf(p)} :
             cache'[k] = cache[k] /\ heap'[cache[k]] = heap[cache[k]]

\* the first half of C15 alone
C15_ReadOnceWriteOnce ==
    [][\A p \in Procs :
          (Steps(p) /\ call'[p].ran = "online_request" /\ call[p].method = "GET")
              => ReadOnceWriteOnce(p)
      ]_vars

\* C15: an online GET reads the cache at most once, before its first
\* transport call, and sets it at most once, after its last; and while
\* another call is in progress, a step of the GET changes what the cache
\* holds only by that one whole-entry set.
C15_CacheReadOnceWrittenOnce ==
    [][\A p \in Procs :
          (Steps(p) /\ call'[p].ran = "online_request" /\ call[p].method = "GET") =>
              /\ ReadOnceWriteOnce(p)
              /\ (\E q \in Procs \ {p} : InCall(q)) => OnlyWholeEntryWrite(p)
      ]_vars

\* the diagnostic of the outcome of the returned call of thread p
OwnDiagnostic(p) ==
    LET c == call[p]
    IN  CASE c.ran = "offline_request" ->
                IF c.hadCached THEN "OFFLINE_HIT" ELSE "OFFLINE_MISS"
          [] c.ran = "online_request" /\ c.method /= "GET" -> "ONLINE_MISS"
          [] c.ran = "online_request" /\ c.method = "GET" ->
                IF c.first = 304
                THEN IF c.second = 0 THEN "ONLINE_HIT" ELSE "ONLINE_MISS"
                ELSE IF c.first = 403 /\ HasRateLimitPhrase(c.firstBody)
                THEN IF c.hadCached THEN "RATE_LIMITED_HIT" ELSE "RATE_LIMITED_MISS"
                ELSE "ONLINE_MISS"

\* C16: the response a call has returned carries the diagnostic of that
\* call's own outcome for as long as its caller holds it, whatever the
\* calls of other threads on the same key do meanwhile.
C16_DiagnosticIsOwn ==
    \A p \in Procs :
        (call[p].pc = "done" /\ call[p].result /= NoRef) =>
            heap[call[p].result].xcache = OwnDiagnostic(p)

\* the diagnostic is the call's own at the moment it returns
C16_OwnAtReturn ==
    [][\A p \in Procs :
          Returns(p) => heap'[call'[p].result].xcache = OwnDiagnostic(p)']_vars

\* C17: the first request of an online call carries If-None-Match exactly
\* when the call is a GET, the cache holds an entry for its key and the
\* entry has an ETag, and then with that ETag; If-Modified-Since likewise
\* from the entry's Last-Modified; so both when both are stored, and
\* neither for an absent key or a method other than GET.
C17_ConditionalHeaders ==
    [][\A p \in Procs :
          (call[p].pc = "online" /\ Steps(p)) =>
              LET stored == call[p].method = "GET" /\ KeyOf(p) \in DOMAIN cache
                  entry == heap[cache[KeyOf(p)]]
              IN  /\ call'[p].ntransport = 1
                  /\ call'[p].headers.IfNoneMatch =
                        IF stored /\ entry.etag /= None THEN entry.etag ELSE None
                  /\ call'[p].headers.IfModifiedSince =
                        IF stored /\ entry.lastmod /= None THEN entry.lastmod ELSE None
      ]_vars

\* a GET is waiting for the answer to a first request that carries both
\* conditional headers, taken from an entry that stores both validators
C17_Witness ==
    \E p \in Procs :
        /\ call[p].pc = "wait1"
        /\ call[p].ntransport = 1
        /\ call[p].cached \in DOMAIN heap
        /\ heap[call[p].cached].etag = "etag1"
        /\ heap[call[p].cached].lastmod = "date1"
        /\ call[p].headers.IfNoneMatch = "etag1"
        /\ call[p].headers.IfModifiedSince = "date1"

\* first requests with one conditional header only, and a non-GET over a
\* stored key with none
C17_WitnessOthers ==
    /\ \E p \in Procs : /\ call[p].pc = "forward"
                        /\ KeyOf(p) \in DOMAIN cache
                        /\ call[p].headers.IfNoneMatch = None
                        /\ call[p].headers.IfModifiedSince = None
    /\ host.upstream = "any"

\* C18: with an upstream that honours conditional requests, the body of
\* every response served as ONLINE_HIT is the body the upstream currently
\* returns for the url under the page size the call asks for.
C18_HitBodyIsCurrent ==
    [][\A p \in Procs :
          (/\ host.upstream \in HonestUpstreams
           /\ Returns(p)
           /\ heap'[call'[p].result].xcache = "ONLINE_HIT") =>
              heap'[call'[p].result].body =
                  Representation(host.upstream, PageSizeOf(p)).body
      ]_vars

\* the same with an upstream whose pages carry an ETag of their own:
\* If-None-Match decides, and the ETag of another page never matches
C18_HitBodyIsCurrentByETag ==
    [][\A p \in Procs :
          (/\ host.upstream \in {"honest etag", "honest both"}
           /\ Returns(p)
           /\ heap'[call'[p].result].xcache = "ONLINE_HIT") =>
              heap'[call'[p].result].body =
                  Representation(host.upstream, PageSizeOf(p)).body
      ]_vars

\* how far a call has got: every step of a call moves it forward
Rank(pc) ==
    CASE pc \in {"idle"} -> 0
      [] pc \in {"online", "offline"} -> 1
      [] pc \in {"forward", "wait1"} -> 2
      [] pc = "wait2" -> 3
      [] pc = "done" -> 4

\* the handler steps of thread p, each transport call returning an answer
Progress(p) ==
    \/ online_request_send(p)
    \/ online_request_forward(p)
    \/ online_request_answer(p)
    \/ online_request_refetched(p)
    \/ offline_request(p)

\* C19: a call that has been dispatched can always take its next step when
\* its transport call returns, and every step, a failing transport call
\* included, moves it strictly forward through at most four positions, so
\* it ends; it makes no transport call when it read the health flag as
\* offline, one when it is an online non-GET or an online GET whose first
\* request is not answered 304, never more than two, and a second only
\* after a 304 to the first with a stored full page without next link;
\* whatever answers the second request ends the call.
C19_TerminatesWithinTwoTransports ==
    /\ [](\A p \in Procs : InCall(p) => ENABLED Progress(p))
    /\ [][\A p \in Procs :
            (Steps(p) /\ InCall(p)) =>
                /\ Rank(call'[p].pc) > Rank(call[p].pc)
                /\ call'[p].ntransport <= 2
                /\ call'[p].ntransport >= call[p].ntransport
                /\ ~call[p].health => call'[p].ntransport = 0
                /\ (call'[p].pc = "done" /\ call[p].health /\ call[p].method /= "GET")
                      => call'[p].ntransport = 1
                /\ (call'[p].pc = "done" /\ call[p].health /\ call[p].method = "GET"
                        /\ call'[p].first /= 304)
                      => call'[p].ntransport = 1
                /\ (call'[p].ntransport = 2 /\ call[p].ntransport < 2)
                      => /\ call[p].pc = "wait1"
                         /\ call'[p].first = 304
                         /\ call[p].cached \in DOMAIN heap
                         /\ CachedFullWithoutNext(p)
                /\ call[p].pc = "wait2" => call'[p].pc = "done"
       ]_vars

\* a GET has ended after two transport calls, both answered 304
C19_Witness ==
    \E p \in Procs :
        /\ call[p].pc = "done"
        /\ call[p].ntransport = 2
        /\ call[p].first = 304
        /\ call[p].second = 304

\* a GET has ended after two transport calls, the second answered by a
\* rate-limit 403
C19_WitnessRateLimited ==
    \E p \in Procs :
        /\ call[p].pc = "done"
        /\ call[p].ntransport = 2
        /\ call[p].second = 403
        /\ call[p].result \in DOMAIN heap
        /\ HasRateLimitPhrase(heap[call[p].result].body)

\* in this step thread p's call receives a 304 to a request that carried
\* neither If-None-Match nor If-Modified-Since
Bare304(p) ==
    /\ call[p].headers.IfNoneMatch = None
    /\ call[p].headers.IfModifiedSince = None
    /\ \/ call[p].pc \in {"forward", "wait1"} /\ call'[p].first = 304
       \/ call[p].pc = "wait2" /\ call'[p].second = 304

\* C20: unless the upstream answers 304 to a request without conditional
\* header, no call returns a response of status 304; in particular no GET
\* returns a 304 as ONLINE_MISS.
C20_Never304 ==
    [][\A p \in Procs :
          (Returns(p) /\ ~Bare304(p)) => heap'[call'[p].result].status /= 304
      ]_vars

====
